---- MODULE Spec2Model ----
(***************************************************************************)
(* Model of OptimizedVacuum.py: a zig-zag sweep vacuum agent on a grid.    *)
(* Three entry points are exercised:                                       *)
(*   driver = "episode" : run_episode (Room construction, loop, result)    *)
(*   driver = "step"    : step() called with arbitrary action tokens       *)
(*   driver = "agent"   : choose_action() called with arbitrary percepts   *)
(* Probabilities are counted in units of 1/ProbScale.                      *)
(***************************************************************************)
EXTENDS Integers, Sequences, FiniteSets, TLC

\* ---- bounds ----
MaxRows == 2
MaxCols == 2
MaxNeg == 1
ProbScale == 2
MaxSteps == 9

\* ---- program constants ----
\* run_episode(max_steps=500)
DefaultMaxSteps == 500

VARIABLES driver, pc, rows, cols, dirt_prob, max_steps, start,
          grid, pos, direction, steps_taken, initial_dirt,
          percept, action, history, visited, result

vars == <<driver, pc, rows, cols, dirt_prob, max_steps, start,
          grid, pos, direction, steps_taken, initial_dirt,
          percept, action, history, visited, result>>

\* ---- Python helpers ----
\* range(n): 0..n-1, empty when n <= 0
Range(n) == 0 .. (n - 1)

\* list indexing: a list of length n accepts -n <= i < n, negative i counts
\* from the end; anything else raises IndexError
Indexable(n, i) == (0 - n) <= i /\ i < n
Index(n, i) == IF i < 0 THEN i + n ELSE i

\* values random.random() can return, in [0, 1)
Draws == 0 .. (ProbScale - 1)

\* ---- Room ----
\* Room.__post_init__: a cell is dirty iff its draw is < dirt_prob
\* mutant of Room.__post_init__: draw <= dirt_prob instead of draw < dirt_prob
Grids_DrawLeq(nr, nc, dp) ==
    { g \in [Range(nr) -> [Range(nc) -> BOOLEAN]] :
        \A r \in Range(nr) : \A c \in Range(nc) :
            \E d \in Draws : g[r][c] = (d <= dp) }

Grids(nr, nc, dp) ==
    { g \in [Range(nr) -> [Range(nc) -> BOOLEAN]] :
        \A r \in Range(nr) : \A c \in Range(nc) :
            \E d \in Draws : g[r][c] = (d < dp) }

NumRows(g) == Cardinality(DOMAIN g)
NumCols(g, r) == Cardinality(DOMAIN g[r])

\* grid[r][c] raises IndexError
Raises(g, p) ==
    \/ ~Indexable(NumRows(g), p[1])
    \/ ~Indexable(NumCols(g, Index(NumRows(g), p[1])), p[2])

Cell(g, p) ==
    LET r == Index(NumRows(g), p[1])
    IN  <<r, Index(NumCols(g, r), p[2])>>

is_dirty(g, p) == g[Cell(g, p)[1]][Cell(g, p)[2]]

\* mutants of Room.clean
\* the flag is never written
clean_NoOp(g, p) == g

\* the whole row is cleared
clean_ClearsRow(g, p) ==
    LET q == Cell(g, p)
    IN  [g EXCEPT ![q[1]] = [c \in DOMAIN @ |-> FALSE]]

\* the flag is flipped instead of cleared
clean_Toggle(g, p) ==
    LET q == Cell(g, p)
    IN  [g EXCEPT ![q[1]] = [@ EXCEPT ![q[2]] = ~@]]

clean(g, p) ==
    LET q == Cell(g, p)
    IN  [g EXCEPT ![q[1]] = [@ EXCEPT ![q[2]] = FALSE]]

dirt_count(nr, nc, g) ==
    Cardinality({ q \in Range(nr) \X Range(nc) : g[q[1]][q[2]] })

\* ---- Percept ----
NoPercept ==
    [pos |-> <<0, 0>>, dirty_here |-> FALSE, wall_up |-> FALSE,
     wall_down |-> FALSE, wall_left |-> FALSE, wall_right |-> FALSE]

\* mutant of get_percept: the right wall is sensed one column too late
get_percept_WallRightLate(nr, nc, g, p) ==
    [pos |-> p,
     dirty_here |-> is_dirty(g, p),
     wall_up |-> (p[1] = 0),
     wall_down |-> (p[1] = nr - 1),
     wall_left |-> (p[2] = 0),
     wall_right |-> (p[2] = nc)]

get_percept(nr, nc, g, p) ==
    [pos |-> p,
     dirty_here |-> is_dirty(g, p),
     wall_up |-> (p[1] = 0),
     wall_down |-> (p[1] = nr - 1),
     wall_left |-> (p[2] = 0),
     wall_right |-> (p[2] = nc - 1)]

\* ---- OptimizedVacuumAgent ----
\* mutants of choose_action
\* line 74 left out: DOWN at the right wall keeps sweeping right
choose_action_NoFlip(dir, p) ==
    IF p.dirty_here THEN [action |-> "SUCK", direction |-> dir]
    ELSE IF dir = 1 THEN
        IF ~p.wall_right THEN [action |-> "RIGHT", direction |-> dir]
        ELSE IF ~p.wall_down THEN [action |-> "DOWN", direction |-> dir]
        ELSE [action |-> "NOOP", direction |-> dir]
    ELSE
        IF ~p.wall_left THEN [action |-> "LEFT", direction |-> dir]
        ELSE IF ~p.wall_down THEN [action |-> "DOWN", direction |-> 1]
        ELSE [action |-> "NOOP", direction |-> dir]

\* line 82 left out: DOWN at the left wall keeps sweeping left
choose_action_NoFlipBack(dir, p) ==
    IF p.dirty_here THEN [action |-> "SUCK", direction |-> dir]
    ELSE IF dir = 1 THEN
        IF ~p.wall_right THEN [action |-> "RIGHT", direction |-> dir]
        ELSE IF ~p.wall_down THEN [action |-> "DOWN", direction |-> -1]
        ELSE [action |-> "NOOP", direction |-> dir]
    ELSE
        IF ~p.wall_left THEN [action |-> "LEFT", direction |-> dir]
        ELSE IF ~p.wall_down THEN [action |-> "DOWN", direction |-> dir]
        ELSE [action |-> "NOOP", direction |-> dir]

\* walls are looked at before the dirt
choose_action_WallsFirst(dir, p) ==
    IF dir = 1 THEN
        IF p.dirty_here /\ p.wall_right THEN
            [action |-> "SUCK", direction |-> dir]
        ELSE IF ~p.wall_right THEN [action |-> "RIGHT", direction |-> dir]
        ELSE IF ~p.wall_down THEN [action |-> "DOWN", direction |-> -1]
        ELSE [action |-> "NOOP", direction |-> dir]
    ELSE
        IF p.dirty_here THEN [action |-> "SUCK", direction |-> dir]
        ELSE IF ~p.wall_left THEN [action |-> "LEFT", direction |-> dir]
        ELSE IF ~p.wall_down THEN [action |-> "DOWN", direction |-> 1]
        ELSE [action |-> "NOOP", direction |-> dir]

\* the agent turns round in the bottom corner instead of staying put
choose_action_NoopTurns(dir, p) ==
    IF p.dirty_here THEN [action |-> "SUCK", direction |-> dir]
    ELSE IF dir = 1 THEN
        IF ~p.wall_right THEN [action |-> "RIGHT", direction |-> dir]
        ELSE IF ~p.wall_down THEN [action |-> "DOWN", direction |-> -1]
        ELSE [action |-> "NOOP", direction |-> -1]
    ELSE
        IF ~p.wall_left THEN [action |-> "LEFT", direction |-> dir]
        ELSE IF ~p.wall_down THEN [action |-> "DOWN", direction |-> 1]
        ELSE [action |-> "NOOP", direction |-> 1]

\* returns the action and the agent's direction after the call
choose_action(dir, p) ==
    IF p.dirty_here THEN [action |-> "SUCK", direction |-> dir]
    ELSE IF dir = 1 THEN
        IF ~p.wall_right THEN [action |-> "RIGHT", direction |-> dir]
        ELSE IF ~p.wall_down THEN [action |-> "DOWN", direction |-> -1]
        ELSE [action |-> "NOOP", direction |-> dir]
    ELSE
        IF ~p.wall_left THEN [action |-> "LEFT", direction |-> dir]
        ELSE IF ~p.wall_down THEN [action |-> "DOWN", direction |-> 1]
        ELSE [action |-> "NOOP", direction |-> dir]

\* ---- step ----
\* mutants of step
\* UP without the r > 0 test
step_UpNoClamp(nr, nc, g, p, a) ==
    LET r == p[1]
        c == p[2]
    IN  IF a = "SUCK" THEN [pos |-> p, grid |-> clean(g, p)]
        ELSE IF a = "UP" THEN [pos |-> <<r - 1, c>>, grid |-> g]
        ELSE IF a = "DOWN" THEN
            [pos |-> IF r < nr - 1 THEN <<r + 1, c>> ELSE p, grid |-> g]
        ELSE IF a = "LEFT" THEN
            [pos |-> IF c > 0 THEN <<r, c - 1>> ELSE p, grid |-> g]
        ELSE IF a = "RIGHT" THEN
            [pos |-> IF c < nc - 1 THEN <<r, c + 1>> ELSE p, grid |-> g]
        ELSE [pos |-> p, grid |-> g]

\* SUCK without the room.clean call
step_NoSuck(nr, nc, g, p, a) ==
    LET r == p[1]
        c == p[2]
    IN  IF a = "SUCK" THEN [pos |-> p, grid |-> g]
        ELSE IF a = "UP" THEN
            [pos |-> IF r > 0 THEN <<r - 1, c>> ELSE p, grid |-> g]
        ELSE IF a = "DOWN" THEN
            [pos |-> IF r < nr - 1 THEN <<r + 1, c>> ELSE p, grid |-> g]
        ELSE IF a = "LEFT" THEN
            [pos |-> IF c > 0 THEN <<r, c - 1>> ELSE p, grid |-> g]
        ELSE IF a = "RIGHT" THEN
            [pos |-> IF c < nc - 1 THEN <<r, c + 1>> ELSE p, grid |-> g]
        ELSE [pos |-> p, grid |-> g]

\* DOWN clamps one row early
step_DownOffByOne(nr, nc, g, p, a) ==
    LET r == p[1]
        c == p[2]
    IN  IF a = "SUCK" THEN [pos |-> p, grid |-> clean(g, p)]
        ELSE IF a = "UP" THEN
            [pos |-> IF r > 0 THEN <<r - 1, c>> ELSE p, grid |-> g]
        ELSE IF a = "DOWN" THEN
            [pos |-> IF r < nr - 2 THEN <<r + 1, c>> ELSE p, grid |-> g]
        ELSE IF a = "LEFT" THEN
            [pos |-> IF c > 0 THEN <<r, c - 1>> ELSE p, grid |-> g]
        ELSE IF a = "RIGHT" THEN
            [pos |-> IF c < nc - 1 THEN <<r, c + 1>> ELSE p, grid |-> g]
        ELSE [pos |-> p, grid |-> g]

\* SUCK at a position grid[r][c] rejects raises; the callers guard on Raises
step(nr, nc, g, p, a) ==
    LET r == p[1]
        c == p[2]
    IN  IF a = "SUCK" THEN [pos |-> p, grid |-> clean(g, p)]
        ELSE IF a = "UP" THEN
            [pos |-> IF r > 0 THEN <<r - 1, c>> ELSE p, grid |-> g]
        ELSE IF a = "DOWN" THEN
            [pos |-> IF r < nr - 1 THEN <<r + 1, c>> ELSE p, grid |-> g]
        ELSE IF a = "LEFT" THEN
            [pos |-> IF c > 0 THEN <<r, c - 1>> ELSE p, grid |-> g]
        ELSE IF a = "RIGHT" THEN
            [pos |-> IF c < nc - 1 THEN <<r, c + 1>> ELSE p, grid |-> g]
        ELSE [pos |-> p, grid |-> g]

\* ---- inputs ----
InBounds(nr, nc, p) == p[1] \in Range(nr) /\ p[2] \in Range(nc)

RowDims == (0 - MaxNeg) .. MaxRows
ColDims == (0 - MaxNeg) .. MaxCols
Probs == (0 - 1) .. (ProbScale + 1)
Budgets == (0 - 1) .. MaxSteps

\* every in-bounds start, the default (0,0), and one position beyond each wall
Starts(nr, nc) ==
    (Range(nr) \X Range(nc)) \cup
    {<<0, 0>>, <<0 - 1, 0>>, <<0, 0 - 1>>, <<nr, 0>>, <<0, nc>>}

\* action tokens handed to step(); "JUMP" stands for an unrecognised token
Tokens == {"SUCK", "UP", "DOWN", "LEFT", "RIGHT", "NOOP", "JUMP"}

\* percepts handed to choose_action() on its own
Percepts ==
    [pos : {<<0, 0>>}, dirty_here : BOOLEAN, wall_up : BOOLEAN,
     wall_down : BOOLEAN, wall_left : BOOLEAN, wall_right : BOOLEAN]

EmptyGrid == [r \in {} |-> [c \in {} |-> FALSE]]

\* ---- initial states ----
InitEpisode ==
    /\ driver = "episode"
    /\ pc = "start"
    /\ rows \in RowDims
    /\ cols \in ColDims
    /\ dirt_prob \in Probs
    /\ max_steps \in Budgets
    /\ start \in Starts(rows, cols)
    /\ grid = EmptyGrid
    /\ pos = start
    /\ direction = 0
    /\ steps_taken = 0
    /\ initial_dirt = 0
    /\ percept = NoPercept
    /\ action = "NONE"
    /\ history = <<>>
    /\ visited = <<>>
    /\ result = <<>>

InitStep ==
    /\ driver = "step"
    /\ pc = "call"
    /\ rows \in 1 .. MaxRows
    /\ cols \in 1 .. MaxCols
    /\ dirt_prob = 1
    /\ max_steps = 0
    /\ grid \in Grids(rows, cols, dirt_prob)
    /\ pos \in Range(rows) \X Range(cols)
    /\ start = <<0, 0>>
    /\ direction = 1
    /\ steps_taken = 0
    /\ initial_dirt = dirt_count(rows, cols, grid)
    /\ percept = NoPercept
    /\ action = "NONE"
    /\ history = <<>>
    /\ visited = <<>>
    /\ result = <<>>

InitAgent ==
    /\ driver = "agent"
    /\ pc = "call"
    /\ rows = 0
    /\ cols = 0
    /\ dirt_prob = 0
    /\ max_steps = 0
    /\ start = <<0, 0>>
    /\ grid = EmptyGrid
    /\ pos = start
    /\ direction = 1
    /\ steps_taken = 0
    /\ initial_dirt = 0
    /\ percept = NoPercept
    /\ action = "NONE"
    /\ history = <<>>
    /\ visited = <<>>
    /\ result = <<>>

\* run_episode(rows=3, cols=3, dirt_prob=1.0) with the default step budget and
\* the default start: the 3x3 scenario of section 8
InitScenario ==
    /\ driver = "episode"
    /\ pc = "start"
    /\ rows = 3
    /\ cols = 3
    /\ dirt_prob = ProbScale
    /\ max_steps = DefaultMaxSteps
    /\ start = <<0, 0>>
    /\ grid = EmptyGrid
    /\ pos = start
    /\ direction = 0
    /\ steps_taken = 0
    /\ initial_dirt = 0
    /\ percept = NoPercept
    /\ action = "NONE"
    /\ history = <<>>
    /\ visited = <<>>
    /\ result = <<>>

Init == InitEpisode \/ InitScenario \/ InitStep \/ InitAgent

\* ---- run_episode ----
\* room = Room(...); agent = OptimizedVacuumAgent(); pos = start;
\* initial_dirt = room.dirt_count(); steps_taken = 0
Construct ==
    /\ driver = "episode"
    /\ pc = "start"
    /\ \E g \in Grids(rows, cols, dirt_prob) :
        /\ grid' = g
        /\ initial_dirt' = dirt_count(rows, cols, g)
    /\ direction' = 1
    /\ pos' = start
    /\ steps_taken' = 0
    /\ visited' = <<start>>
    /\ pc' = "loop"
    /\ UNCHANGED <<driver, rows, cols, dirt_prob, max_steps, start,
                   percept, action, history, result>>

\* mutant of the loop condition: the budget is cut one step short
LoopGuard_OffByOne ==
    steps_taken < max_steps - 1 /\ dirt_count(rows, cols, grid) > 0

\* while steps_taken < max_steps and room.dirt_count() > 0
LoopGuard == steps_taken < max_steps /\ dirt_count(rows, cols, grid) > 0

\* one iteration of the while loop
LoopStep ==
    /\ driver = "episode"
    /\ pc = "loop"
    /\ LoopGuard
    /\ IF Raises(grid, pos)
       THEN /\ pc' = "error"
            /\ UNCHANGED <<grid, pos, direction, steps_taken, percept,
                           action, history, visited>>
       ELSE LET p == get_percept(rows, cols, grid, pos)
                d == choose_action(direction, p)
                s == step(rows, cols, grid, pos, d.action)
            IN  /\ percept' = p
                /\ action' = d.action
                /\ direction' = d.direction
                /\ pos' = s.pos
                /\ grid' = s.grid
                /\ steps_taken' = steps_taken + 1
                /\ history' = Append(history, d.action)
                /\ visited' = IF s.pos = pos THEN visited
                              ELSE Append(visited, s.pos)
                /\ pc' = "loop"
    /\ UNCHANGED <<driver, rows, cols, dirt_prob, max_steps, start,
                   initial_dirt, result>>

\* the loop condition fails: build the result dict
Return ==
    /\ driver = "episode"
    /\ pc = "loop"
    /\ ~LoopGuard
    /\ result' = << [rows |-> rows, cols |-> cols,
                     initial_dirt |-> initial_dirt,
                     steps_taken |-> steps_taken,
                     dirt_remaining |-> dirt_count(rows, cols, grid),
                     cleaned_all |-> (dirt_count(rows, cols, grid) = 0)] >>
    /\ pc' = "done"
    /\ UNCHANGED <<driver, rows, cols, dirt_prob, max_steps, start, grid,
                   pos, direction, steps_taken, initial_dirt, percept,
                   action, history, visited>>

\* ---- step() on its own ----
StepCall ==
    /\ driver = "step"
    /\ pc = "call"
    /\ \E a \in Tokens :
        /\ action' = a
        /\ IF a = "SUCK" /\ Raises(grid, pos)
           THEN pc' = "error" /\ UNCHANGED <<grid, pos>>
           ELSE /\ pos' = step(rows, cols, grid, pos, a).pos
                /\ grid' = step(rows, cols, grid, pos, a).grid
                /\ pc' = "call"
    /\ UNCHANGED <<driver, rows, cols, dirt_prob, max_steps, start,
                   direction, steps_taken, initial_dirt, percept,
                   history, visited, result>>

\* ---- choose_action() on its own ----
AgentCall ==
    /\ driver = "agent"
    /\ pc = "call"
    /\ \E p \in Percepts :
        /\ percept' = p
        /\ action' = choose_action(direction, p).action
        /\ direction' = choose_action(direction, p).direction
    /\ UNCHANGED <<driver, pc, rows, cols, dirt_prob, max_steps, start,
                   grid, pos, steps_taken, initial_dirt, history, visited,
                   result>>

Next == Construct \/ LoopStep \/ Return \/ StepCall \/ AgentCall

Spec == Init /\ [][Next]_vars

\* ---- helpers for the properties ----
Count(seq, S) == Cardinality({ i \in 1 .. Len(seq) : seq[i] \in S })

NoRepeat(seq) ==
    \A i \in 1 .. Len(seq) : \A j \in 1 .. Len(seq) :
        seq[i] = seq[j] => i = j

Moves == {"UP", "DOWN", "LEFT", "RIGHT"}

\* row 0 left to right, row 1 right to left, row 2 left to right, ...
Boustrophedon(nr, nc) ==
    [i \in 1 .. (nr * nc) |->
        LET r == (i - 1) \div nc
            k == (i - 1) % nc
        IN  <<r, IF r % 2 = 0 THEN k ELSE nc - 1 - k>>]

IsPrefix(s, t) ==
    Len(s) <= Len(t) /\ \A i \in 1 .. Len(s) : s[i] = t[i]

ValidDims == rows >= 1 /\ cols >= 1
Episode == driver = "episode"
Running == Episode /\ pc \in {"loop", "done"}
AllDirtyAtStart == ValidDims /\ initial_dirt = rows * cols

\* choose_action was called in this step
AgentActs ==
    \/ driver = "agent"
    \/ Episode /\ pc = "loop" /\ pc' = "loop"

\* the decision table of section 4.2, one row per line
Table(dir, p, a, dir2) ==
    /\ p.dirty_here => (a = "SUCK" /\ dir2 = dir)
    /\ (~p.dirty_here /\ dir = 1 /\ ~p.wall_right)
          => (a = "RIGHT" /\ dir2 = dir)
    /\ (~p.dirty_here /\ dir = 1 /\ p.wall_right /\ ~p.wall_down)
          => (a = "DOWN" /\ dir2 = 0 - 1)
    /\ (~p.dirty_here /\ dir = 1 /\ p.wall_right /\ p.wall_down)
          => (a = "NOOP" /\ dir2 = dir)
    /\ (~p.dirty_here /\ dir = 0 - 1 /\ ~p.wall_left)
          => (a = "LEFT" /\ dir2 = dir)
    /\ (~p.dirty_here /\ dir = 0 - 1 /\ p.wall_left /\ ~p.wall_down)
          => (a = "DOWN" /\ dir2 = 1)
    /\ (~p.dirty_here /\ dir = 0 - 1 /\ p.wall_left /\ p.wall_down)
          => (a = "NOOP" /\ dir2 = dir)

\* C1: every call of choose_action returns the action and leaves the
\* direction that the decision table of section 4.2 gives for the percept and
\* the direction before the call; a new agent starts in direction Right (1).
C1_DecisionTable ==
    /\ (driver = "agent" => direction = 1)
    /\ [][ /\ (Episode /\ pc = "start" => direction' = 1)
           /\ (AgentActs =>
                 /\ direction \in {1, 0 - 1}
                 /\ Table(direction, percept', action', direction')) ]_vars

C1_Witness ==
    /\ driver = "agent"
    /\ action = "DOWN"
    /\ direction = 1
    /\ percept.wall_left /\ percept.wall_right /\ ~percept.wall_down

\* C2 as stated: whenever the agent returns NOOP in an episode with an
\* in-bounds start, the grid holds no dirty cell.
C2_Original ==
    (Episode /\ InBounds(rows, cols, start) /\ action = "NOOP")
        => dirt_count(rows, cols, grid) = 0

\* C2 amended: the agent returns NOOP in an episode only when the episode
\* did not start at (0,0), and whenever it does dirt remains in the grid; an
\* episode started at (0,0) never sees NOOP.
C2_NoopOnlyOffOrigin ==
    (Episode /\ action = "NOOP")
        => (start # <<0, 0>> /\ dirt_count(rows, cols, grid) > 0)

C2_Witness ==
    /\ Episode
    /\ InBounds(rows, cols, start)
    /\ action = "NOOP"
    /\ pc = "loop"
    /\ dirt_count(rows, cols, grid) > 0

\* C3: an episode started at (0,0) with max_steps >= rows*cols + initial_dirt
\* never enters a cell twice, uses at most rows*cols moves and one SUCK per
\* initially dirty cell, and ends with cleaned_all and
\* steps_taken <= rows*cols + initial_dirt.
C3_SweepFromOrigin ==
    (Running /\ ValidDims /\ start = <<0, 0>>
       /\ max_steps >= rows * cols + initial_dirt)
        => /\ NoRepeat(visited)
           /\ Count(history, Moves) <= rows * cols
           /\ Count(history, {"SUCK"}) <= initial_dirt
           /\ Count(history, Moves \cup {"SUCK"}) = Len(history)
           /\ pc = "done" =>
                /\ result[1].cleaned_all
                /\ result[1].steps_taken <= rows * cols + initial_dirt
                /\ Count(history, {"SUCK"}) = initial_dirt

C3_Witness ==
    /\ Episode /\ pc = "done" /\ start = <<0, 0>>
    /\ rows >= 2 /\ cols >= 2
    /\ max_steps >= rows * cols + initial_dirt
    /\ initial_dirt >= 2 /\ initial_dirt < rows * cols
    /\ result[1].steps_taken = rows * cols - 1 + initial_dirt

\* C4 as stated: all cells dirty, start (0,0) and
\* max_steps >= rows*cols + (rows - 1) give cleaned_all and
\* steps_taken <= 2*rows*cols.
C4_Original ==
    (Episode /\ pc = "done" /\ start = <<0, 0>> /\ ValidDims
       /\ dirt_prob = ProbScale
       /\ max_steps >= rows * cols + (rows - 1))
        => (result[1].cleaned_all
            /\ result[1].steps_taken <= rows * cols * 2)

\* C4 amended: all cells dirty, start (0,0) and
\* max_steps >= 2*rows*cols - 1 give cleaned_all and
\* steps_taken <= 2*rows*cols (in fact exactly 2*rows*cols - 1).
C4_AllDirtyBudget ==
    (Episode /\ pc = "done" /\ start = <<0, 0>> /\ ValidDims
       /\ dirt_prob = ProbScale
       /\ max_steps >= 2 * rows * cols - 1)
        => (result[1].cleaned_all
            /\ result[1].steps_taken <= rows * cols * 2
            /\ result[1].steps_taken = 2 * rows * cols - 1)

C4_Witness ==
    /\ Episode /\ pc = "done" /\ start = <<0, 0>>
    /\ rows >= 2 /\ cols >= 2
    /\ dirt_prob = ProbScale
    /\ max_steps = 2 * rows * cols - 1
    /\ result[1].cleaned_all

\* C5 as stated (safety part): at the end of every episode on a valid room
\* with an in-bounds start
\* steps_taken <= max_steps and (no dirt is left or steps_taken = max_steps),
\* the loop body never ran with no dirt or with the budget used up, and
\* cleaned_all is reported exactly when dirt_remaining = 0.
C5_Original ==
    /\ (Episode /\ pc = "done" /\ ValidDims /\ InBounds(rows, cols, start)
          /\ dirt_prob >= 0 /\ dirt_prob <= ProbScale) =>
          /\ result[1].steps_taken <= max_steps
          /\ (result[1].dirt_remaining = 0
              \/ result[1].steps_taken = max_steps)
          /\ result[1].cleaned_all = (result[1].dirt_remaining = 0)
    /\ (Episode /\ steps_taken > 0) => steps_taken <= max_steps

\* C6: from (0,0) with every cell dirty the cells are entered in
\* boustrophedon order, and with a budget that lets the sweep finish the
\* visited cells are the whole order.
C6_BoustrophedonOrder ==
    (Running /\ start = <<0, 0>> /\ AllDirtyAtStart)
        => /\ IsPrefix(visited, Boustrophedon(rows, cols))
           /\ (pc = "done" /\ max_steps >= 2 * rows * cols - 1)
                 => visited = Boustrophedon(rows, cols)

C6_Witness ==
    /\ Episode /\ pc = "done" /\ start = <<0, 0>>
    /\ rows >= 2 /\ cols >= 2
    /\ initial_dirt = rows * cols
    /\ Len(visited) = rows * cols
    /\ visited[Len(visited)] = <<rows - 1, 0>>

\* C7: once the agent has returned NOOP, the position, the direction and the
\* grid stay as they are, every later action is NOOP, and the episode ends
\* with steps_taken = max_steps, cleaned_all false and dirt remaining.
C7_NoopIsSteady ==
    /\ []((Episode /\ pc = "done" /\ action = "NOOP") =>
             /\ result[1].steps_taken = max_steps
             /\ ~result[1].cleaned_all
             /\ result[1].dirt_remaining > 0)
    /\ [][(Episode /\ action = "NOOP") =>
             /\ pos' = pos
             /\ direction' = direction
             /\ grid' = grid
             /\ action' = "NOOP"
             /\ pc' \in {"loop", "done"}
             /\ (pc' = "done" => steps_taken = max_steps)]_vars

C7_Witness ==
    /\ Episode /\ pc = "done" /\ action = "NOOP"
    /\ Len(history) >= 3
    /\ history[Len(history) - 1] = "NOOP"
    /\ history[Len(history) - 2] = "NOOP"
    /\ result[1].dirt_remaining > 0

\* C8: step keeps an in-bounds position in bounds whatever the token, and an
\* episode with an in-bounds start only ever stands on, queries and cleans
\* in-bounds positions (and so never raises).
C8_StaysInBounds ==
    /\ (driver = "step" => (InBounds(rows, cols, pos) /\ pc # "error"))
    /\ (Running /\ InBounds(rows, cols, start)) =>
          /\ InBounds(rows, cols, pos)
          /\ \A i \in 1 .. Len(visited) : InBounds(rows, cols, visited[i])
          /\ (steps_taken > 0 => InBounds(rows, cols, percept.pos))
    /\ (Episode /\ InBounds(rows, cols, start)) => pc # "error"

C8_Witness ==
    /\ driver = "step"
    /\ action = "RIGHT"
    /\ cols = 1
    /\ pos[1] = rows - 1

\* C9 as stated: a loop iteration that queries the room at an out-of-bounds
\* position fails, returns no percept and changes no cell.
C9_Original ==
    [][(Episode /\ pc = "loop" /\ LoopGuard /\ ~InBounds(rows, cols, pos))
          => (pc' = "error" /\ grid' = grid /\ percept' = percept
              /\ action' = action)]_vars

\* C10 as stated: invalid parameters never yield a room or a result.
C10_Original ==
    (Episode /\ (rows < 0 \/ cols < 0 \/ dirt_prob < 0
                 \/ dirt_prob > ProbScale \/ max_steps <= 0))
        => (pc \in {"start", "error"} /\ result = <<>>)

\* C11: with dirt_prob = 0, whatever the grid size, the start and the budget,
\* no cell is dirty, the loop body never runs (the agent is never asked), and
\* the result is initial_dirt = 0, steps_taken = 0, dirt_remaining = 0,
\* cleaned_all = TRUE.
C11_CleanRoomEndsAtOnce ==
    (Episode /\ dirt_prob = 0 /\ pc # "start")
        => /\ pc \in {"loop", "done"}
           /\ initial_dirt = 0
           /\ steps_taken = 0
           /\ history = <<>>
           /\ action = "NONE"
           /\ percept = NoPercept
           /\ pc = "done" =>
                /\ result[1].initial_dirt = 0
                /\ result[1].steps_taken = 0
                /\ result[1].dirt_remaining = 0
                /\ result[1].cleaned_all

C11_Witness ==
    /\ Episode /\ pc = "done" /\ dirt_prob = 0
    /\ rows >= 2 /\ cols >= 2
    /\ start # <<0, 0>>
    /\ max_steps >= 1
    /\ result[1].cleaned_all

\* the 3x3 scenario of section 8: every cell dirty, start (0,0)
Scenario3x3 ==
    /\ Episode /\ rows = 3 /\ cols = 3 /\ start = <<0, 0>>
    /\ pc \in {"loop", "done"}
    /\ initial_dirt = 9

ScenarioActions ==
    <<"SUCK", "RIGHT", "SUCK", "RIGHT", "SUCK", "DOWN",
      "SUCK", "LEFT", "SUCK", "LEFT", "SUCK", "DOWN",
      "SUCK", "RIGHT", "SUCK", "RIGHT", "SUCK">>

\* C12: on the all-dirty 3x3 grid from (0,0) the actions chosen are a prefix of
\* SUCK, RIGHT, SUCK, RIGHT, SUCK, DOWN, SUCK, LEFT, SUCK, LEFT, SUCK, DOWN,
\* SUCK, RIGHT, SUCK, RIGHT, SUCK; with a sufficient budget the episode stops
\* after exactly these, with cleaned_all and dirt_remaining = 0.
C12_ScenarioActions ==
    Scenario3x3
        => /\ IsPrefix(history, ScenarioActions)
           /\ (pc = "done" /\ max_steps >= Len(ScenarioActions))
                 => /\ history = ScenarioActions
                    /\ result[1].cleaned_all
                    /\ result[1].dirt_remaining = 0

C12_Witness ==
    /\ Scenario3x3 /\ pc = "done"
    /\ max_steps = DefaultMaxSteps
    /\ Len(history) = 17
    /\ pos = <<2, 2>>

\* C13 as stated: the all-dirty 3x3 episode from (0,0) with max_steps = 500
\* returns steps_taken = 16.
C13_Original ==
    (Scenario3x3 /\ pc = "done" /\ max_steps = DefaultMaxSteps)
        => result[1].steps_taken = 16

\* C13 amended: that episode returns steps_taken = 17 (9 SUCK, 8 moves).
C13_ScenarioSteps ==
    (Scenario3x3 /\ pc = "done" /\ max_steps = DefaultMaxSteps)
        => /\ result[1].steps_taken = 17
           /\ Count(history, {"SUCK"}) = 9
           /\ Count(history, Moves) = 8

C13_Witness ==
    /\ Scenario3x3 /\ pc = "done"
    /\ max_steps = DefaultMaxSteps
    /\ result[1].steps_taken = 17
    /\ result[1].cleaned_all

\* C14: on a 1x1 grid whose cell is dirty, with start (0,0) and
\* max_steps >= 1, the only action is one SUCK and the result is
\* steps_taken = 1, dirt_remaining = 0, cleaned_all = TRUE.
C14_SingleCell ==
    (Running /\ rows = 1 /\ cols = 1 /\ start = <<0, 0>>
       /\ initial_dirt = 1 /\ max_steps >= 1)
        => /\ IsPrefix(history, <<"SUCK">>)
           /\ pos = <<0, 0>>
           /\ pc = "done" =>
                /\ history = <<"SUCK">>
                /\ result[1].steps_taken = 1
                /\ result[1].dirt_remaining = 0
                /\ result[1].cleaned_all

C14_Witness ==
    /\ Episode /\ pc = "done"
    /\ rows = 1 /\ cols = 1 /\ start = <<0, 0>>
    /\ initial_dirt = 1 /\ max_steps >= 2
    /\ history = <<"SUCK">>

\* the grid after the step differs from the grid before exactly by cell p
\* being clean
OnlyCleaned(p) ==
    \A q \in Range(rows) \X Range(cols) :
        grid'[q[1]][q[2]] = IF q = p THEN FALSE ELSE grid[q[1]][q[2]]

\* C15: step with SUCK cleans the cell at the current position, leaves every
\* other cell and the position as they are; NOOP and unrecognised tokens
\* change neither position nor grid and do not fail; directional tokens
\* change no cell.
C15_StepFrame ==
    [][driver = "step" =>
         /\ action' = "SUCK" => (pos' = pos /\ OnlyCleaned(pos))
         /\ action' \in Moves => grid' = grid
         /\ action' \notin (Moves \cup {"SUCK"}) =>
               (pos' = pos /\ grid' = grid)
         /\ pc' = "call"
         /\ DOMAIN grid' = DOMAIN grid]_vars

C15_Witness ==
    /\ driver = "step"
    /\ action = "SUCK"
    /\ rows >= 2 /\ cols >= 2
    /\ initial_dirt = rows * cols
    /\ dirt_count(rows, cols, grid) = rows * cols - 1

Cells == Range(rows) \X Range(cols)
DirtNow == dirt_count(rows, cols, grid)
DirtNext == dirt_count(rows, cols, grid')

\* one iteration of the episode loop ran to its end in this step
Stepped == Episode /\ pc = "loop" /\ steps_taken' = steps_taken + 1

\* C17: clean on an already-clean in-bounds cell leaves the grid and
\* dirt_count() as they are, clean twice equals clean once, and clean on a
\* dirty cell lowers dirt_count() by exactly 1.
C17_CleanIdempotent ==
    /\ [](driver = "step" =>
            \A p \in Cells :
               /\ clean(clean(grid, p), p) = clean(grid, p)
               /\ ~is_dirty(clean(grid, p), p)
               /\ ~is_dirty(grid, p) =>
                     /\ clean(grid, p) = grid
                     /\ dirt_count(rows, cols, clean(grid, p)) = DirtNow
               /\ is_dirty(grid, p) =>
                     dirt_count(rows, cols, clean(grid, p)) = DirtNow - 1)
    /\ [][(driver = "step" /\ action' = "SUCK") =>
            /\ ~grid[pos[1]][pos[2]] => (grid' = grid /\ DirtNext = DirtNow)
            /\ grid[pos[1]][pos[2]] => DirtNext = DirtNow - 1
            /\ ~grid'[pos[1]][pos[2]]]_vars

C17_Witness ==
    /\ driver = "step"
    /\ action = "SUCK"
    /\ rows >= 2 /\ cols >= 2
    /\ initial_dirt = 0
    /\ DirtNow = 0

\* C18: during an episode no cell turns from clean to dirty, dirt_count()
\* never grows, every SUCK the agent issues lowers it by exactly 1, every
\* other action leaves the grid as it is, and at the end
\* initial_dirt - dirt_remaining is the number of SUCK actions.
C18_DirtOnlyShrinks ==
    /\ []((Episode /\ pc \in {"loop", "done", "error"}) =>
             initial_dirt - DirtNow = Count(history, {"SUCK"}))
    /\ []((Episode /\ pc = "done") =>
             result[1].initial_dirt - result[1].dirt_remaining
                = Count(history, {"SUCK"}))
    /\ [][(Episode /\ pc = "loop") =>
            /\ \A q \in Cells : grid'[q[1]][q[2]] => grid[q[1]][q[2]]
            /\ DirtNext <= DirtNow
            /\ (Stepped /\ action' = "SUCK") => DirtNext = DirtNow - 1
            /\ (Stepped /\ action' # "SUCK") => grid' = grid
            /\ ~Stepped => grid' = grid]_vars

C18_Witness ==
    /\ Episode /\ pc = "done"
    /\ Count(history, {"SUCK"}) >= 2
    /\ Count(history, Moves) >= 1
    /\ result[1].dirt_remaining >= 1

\* C19: in an episode with an in-bounds start every directional action moves
\* the position by exactly one cell, UP is never chosen, the row never
\* decreases, and no cell above the start row is visited.
C19_MovesAreReal ==
    /\ []((Episode /\ InBounds(rows, cols, start)) =>
             /\ "UP" \notin { history[i] : i \in 1 .. Len(history) }
             /\ \A i \in 1 .. Len(visited) : visited[i][1] >= start[1]
             /\ Len(visited) <= 1 + Count(history, Moves))
    /\ [][(Stepped /\ InBounds(rows, cols, start)) =>
            /\ action' # "UP"
            /\ action' = "RIGHT" => pos' = <<pos[1], pos[2] + 1>>
            /\ action' = "LEFT" => pos' = <<pos[1], pos[2] - 1>>
            /\ action' = "DOWN" => pos' = <<pos[1] + 1, pos[2]>>
            /\ action' \in Moves =>
                  visited' = Append(visited, pos')
            /\ pos'[1] >= pos[1]]_vars

C19_Witness ==
    /\ Episode /\ pc = "done"
    /\ rows >= 2 /\ cols >= 2
    /\ start = <<1, 0>>
    /\ pos = <<1, 1>>
    /\ action = "NOOP"
    /\ result[1].dirt_remaining >= 1

\* C20: the direction is Right (1) exactly when the current row minus the
\* start row is even and Left (-1) exactly when it is odd; it changes only in
\* a step whose action is DOWN, and flips in every such step.
C20_DirectionParity ==
    /\ []((Episode /\ pc # "start") =>
             /\ direction \in {1, 0 - 1}
             /\ pos[1] >= start[1]
             /\ (direction = 1) = ((pos[1] - start[1]) % 2 = 0)
             /\ (direction = 0 - 1) = ((pos[1] - start[1]) % 2 = 1))
    /\ [][(Episode /\ pc = "loop") =>
            /\ direction' # direction => (Stepped /\ action' = "DOWN")
            /\ (Stepped /\ action' = "DOWN") =>
                  direction' = 0 - direction]_vars

C20_Witness ==
    /\ Episode
    /\ start[1] = 0
    /\ pos[1] = 1
    /\ direction = 0 - 1
    /\ action = "LEFT"

====
